---- MODULE Spec2Model ----
(***************************************************************************)
(* klein._session: SessionProcurer.procureSession and                      *)
(* Authorization.injectValue, modelled as a state machine.                 *)
(*                                                                         *)
(* procureSession is an inlineCallbacks generator: the code between two    *)
(* yields runs atomically on the reactor thread, so every action below is  *)
(* one such stretch of code, from the start of the call or the firing of   *)
(* the awaited store Deferred to the next yield, return or raise.          *)
(*                                                                         *)
(* Byte strings and text are sequences of code points; an optional value   *)
(* is a sequence of length at most one (None is the empty sequence).       *)
(***************************************************************************)
EXTENDS Integers, Sequences, FiniteSets, TLC

VARIABLES procurer, request, store, calls, injection

vars == <<procurer, request, store, calls, injection>>

----------------------------------------------------------------------------
(* Bounds of the model *)

\* number of procureSession calls made on the request
MaxCalls == 2

----------------------------------------------------------------------------
(* Values *)

None == <<>>
Some(v) == <<v>>
IsNone(o) == o = <<>>
Get(o) == o[1]

CallIds == 1..MaxCalls

\* the byte strings a client sends: "a", "b", "c", the empty string and a
\* string holding the byte 0xff
TokA == <<97>>
TokB == <<98>>
TokC == <<99>>
Empty == <<>>
NonAscii == <<255>>

\* the identifier a store hands out when it rotates the identifier of a
\* loaded session
Rotated == <<114>>

Methods == {"GET", "POST"}

Header == "Header"
Cookie == "Cookie"

NoError == "none"
NoSuchSession == "NoSuchSession"
TooLateForCookies == "TooLateForCookies"
UnicodeDecodeError == "UnicodeDecodeError"
StoreError == "StoreError"

----------------------------------------------------------------------------
(* SessionProcurer: the attr.s attributes and their defaults *)

maxAge == 3600
secureCookie == "Klein-Secure-Session"
insecureCookie == "Klein-INSECURE-Session"
cookiePath == "/"
secureTokenHeader == "X-Auth-Token"
insecureTokenHeader == "X-INSECURE-Auth-Token"

SessionProcurer(setCookieOnGET) ==
    [ _maxAge |-> maxAge,
      _secureCookie |-> secureCookie,
      _insecureCookie |-> insecureCookie,
      _cookieDomain |-> None,
      _cookiePath |-> cookiePath,
      _secureTokenHeader |-> secureTokenHeader,
      _insecureTokenHeader |-> insecureTokenHeader,
      _setCookieOnGET |-> setCookieOnGET ]

\* SessionProcurer(store, secureCookie=..., insecureCookie=...,
\* secureTokenHeader=..., insecureTokenHeader=..., setCookieOnGET=...): the
\* attributes hold whatever the caller passes, there is no validator
SessionProcurerWith(cookies, headers, setCookieOnGET) ==
    [SessionProcurer(setCookieOnGET) EXCEPT
        !._secureCookie = cookies[1],
        !._insecureCookie = cookies[2],
        !._secureTokenHeader = headers[1],
        !._insecureTokenHeader = headers[2]]

HeaderNames == {secureTokenHeader, insecureTokenHeader}
CookieNames == {secureCookie, insecureCookie}

----------------------------------------------------------------------------
(* The request *)

\* request.requestHeaders.getRawHeaders(header, [])
getRawHeaders(rq, header) == rq.requestHeaders[header]

\* request.getHeader(name): the last raw value, or None
getHeader(rq, header) ==
    LET raw == getRawHeaders(rq, header)
    IN  IF Len(raw) = 0 THEN None ELSE Some(raw[Len(raw)])

\* request.getCookie(name)
getCookie(rq, cookie) == rq.received_cookies[cookie]

\* bytes.decode('ascii') succeeds iff every byte is below 128
IsAscii(b) == \A i \in 1..Len(b) : b[i] < 128

\* bytes.decode('ascii'): the text with the same code points, or None when
\* the codec raises UnicodeDecodeError
decode(b) == IF IsAscii(b) THEN Some(b) ELSE None

\* the cookie written a second time by the same call
addCookie_twice(rq, k, v, max_age, domain, path, secure, httpOnly) ==
    LET cookie == [ k |-> k, v |-> v, max_age |-> max_age, domain |-> domain,
                    path |-> path, secure |-> secure, httpOnly |-> httpOnly ]
    IN  [rq EXCEPT !.cookies = Append(Append(@, cookie), cookie)]

\* request.addCookie(k, v, max_age, domain, path, secure, httpOnly)
addCookie(rq, k, v, max_age, domain, path, secure, httpOnly) ==
    [rq EXCEPT !.cookies = Append(@,
        [ k |-> k, v |-> v, max_age |-> max_age, domain |-> domain,
          path |-> path, secure |-> secure, httpOnly |-> httpOnly ])]

\* request.getComponent(ISession)
getComponent(rq) == rq.component

\* request.setComponent(ISession, session)
setComponent(rq, session) == [rq EXCEPT !.component = Some(session)]

----------------------------------------------------------------------------
(* The session store (ISessionStore), an external collaborator: what it   *)
(* answers is chosen by the environment.                                   *)

\* the session object a store returns
Session(identifier, isConfidential, authenticatedBy) ==
    [ identifier |-> identifier, isConfidential |-> isConfidential,
      authenticatedBy |-> authenticatedBy ]

\* identifier of the n-th session the store creates: "n1", "n2", ...
NewIdentifier(n) == <<110, 48 + n>>

\* answers of loadSession: the session under the identifier asked for, the
\* session under a rotated identifier, NoSuchSession, or another failure
LoadOutcomes == {"same", "rotated", NoSuchSession, StoreError}

\* answers of newSession and of sentInsecurely
CallOutcomes == {"ok", StoreError}

----------------------------------------------------------------------------
(* procureSession *)

\* the locals of one procureSession call and the calls it has made on its
\* collaborators so far
IdleCall ==
    [ pc |-> "idle", forceInsecure |-> FALSE, entry |-> None,
      sequential |-> FALSE,
      tokenHeader |-> "", cookieName |-> "", sentSecurely |-> FALSE,
      sessionID |-> None, mechanism |-> "", session |-> None,
      result |-> None, raised |-> NoError, log |-> <<>> ]

Logged(cr, ev) == [cr EXCEPT !.log = Append(@, ev)]

\* what the awaited store Deferred fired with
Answered(cr, outcome, session) ==
    Logged(cr, [ op |-> "answer", outcome |-> outcome, session |-> session ])

\* returnValue(x)
Return(cr, x) == [cr EXCEPT !.pc = "done", !.result = x]

\* raise e
Raise(cr, e) == [cr EXCEPT !.pc = "done", !.raised = e]

\* the cache test lost: every call procures afresh
alreadyProcured_never(rq) == FALSE

\* if alreadyProcured is not None
alreadyProcured(rq) == ~IsNone(getComponent(rq))

\* forceInsecure ignored: the grade follows the transport alone
classify_ignoresForce(cr, rq) ==
    IF rq.secure
    THEN [cr EXCEPT !.tokenHeader = procurer._secureTokenHeader,
                    !.cookieName = procurer._secureCookie,
                    !.sentSecurely = TRUE]
    ELSE [cr EXCEPT !.tokenHeader = procurer._insecureTokenHeader,
                    !.cookieName = procurer._insecureCookie,
                    !.sentSecurely = FALSE]

\* the names and the grade chosen from the transport and forceInsecure
classify(cr, rq) ==
    IF rq.secure /\ ~cr.forceInsecure
    THEN [cr EXCEPT !.tokenHeader = procurer._secureTokenHeader,
                    !.cookieName = procurer._secureCookie,
                    !.sentSecurely = TRUE]
    ELSE [cr EXCEPT !.tokenHeader = procurer._insecureTokenHeader,
                    !.cookieName = procurer._insecureCookie,
                    !.sentSecurely = FALSE]

\* [it for it in [...] if it]: a cookie that is absent or empty is dropped
truthy(o) == IF IsNone(o) \/ Get(o) = Empty THEN <<>> ELSE <<Get(o)>>

\* only the names of the insecure grade harvested
allPossibleSentTokens_insecureOnly(rq) ==
    getRawHeaders(rq, procurer._insecureTokenHeader)
    \o truthy(getCookie(rq, procurer._insecureCookie))

allPossibleSentTokens(rq) ==
    getRawHeaders(rq, procurer._secureTokenHeader)
    \o getRawHeaders(rq, procurer._insecureTokenHeader)
    \o truthy(getCookie(rq, procurer._secureCookie))
    \o truthy(getCookie(rq, procurer._insecureCookie))

\* NoSuchSession swallowed whatever the mechanism
reraises_never(mechanism) == FALSE

\* NoSuchSession re-raised whatever the mechanism
reraises_always(mechanism) == TRUE

\* if mechanism == SessionMechanism.Header: raise
reraises(mechanism) == mechanism = Header

\* setCookieOnGET forgotten
mayNotCreate_methodOnly(rq) == rq.method # "GET"

\* if request.method != b'GET' or not self._setCookieOnGET
mayNotCreate(rq) == rq.method # "GET" \/ ~procurer._setCookieOnGET

\* the comparison of the identifiers lost
cookieDue_anyIdentifier(sessionID, session, rq) ==
    /\ rq.method = "GET"
    /\ procurer._setCookieOnGET

\* the test of the method lost
cookieDue_anyMethod(sessionID, session, rq) ==
    /\ sessionID # Some(session.identifier)
    /\ procurer._setCookieOnGET

\* sessionID != session.identifier and request.method == b'GET' and
\* self._setCookieOnGET
cookieDue(sessionID, session, rq) ==
    /\ sessionID # Some(session.identifier)
    /\ rq.method = "GET"
    /\ procurer._setCookieOnGET

\* if request.startedWriting, before newSession
tooLateToCreate(rq) == rq.startedWriting

\* the second startedWriting test lost
tooLateToRewrite_never(rq) == FALSE

\* if request.startedWriting, before addCookie
tooLateToRewrite(rq) == rq.startedWriting

\* every session cached, whatever its grade
mayCache_always(sentSecurely, rq) == TRUE

\* if sentSecurely or not request.isSecure()
mayCache(sentSecurely, rq) == sentSecurely \/ ~rq.secure

\* the cookie marked secure whatever the grade
secureFlag_always(sentSecurely) == TRUE

\* secure=sentSecurely
secureFlag(sentSecurely) == sentSecurely

\* the state a stretch of code leaves behind
Leaves(cr, rq) == [c |-> cr, r |-> rq]

\* if sessionID is None: ... up to the yield of newSession
creation(cr, rq) ==
    IF mayNotCreate(rq) THEN Leaves(Return(cr, None), rq)
    ELSE IF tooLateToCreate(rq) THEN Leaves(Raise(cr, TooLateForCookies), rq)
    ELSE Leaves(
        Logged([cr EXCEPT !.pc = "newSession"],
               [ op |-> "newSession", sentSecurely |-> cr.sentSecurely,
                 mechanism |-> cr.mechanism ]),
        rq)

\* the session cached before the cookie test: the cache is set ahead of
\* the cookie, and stays set when the cookie comes too late
issue_cachesFirst(cr, rq) ==
    LET session == Get(cr.session)
        due == cookieDue(cr.sessionID, session, rq)
        caches == mayCache(cr.sentSecurely, rq)
        rq1 == IF caches THEN setComponent(rq, session) ELSE rq
        cr1 == IF caches
               THEN Logged(cr, [ op |-> "setComponent", session |-> session ])
               ELSE cr
        rq2 == IF due
               THEN addCookie(rq1, cr.cookieName, session.identifier,
                              procurer._maxAge, procurer._cookieDomain,
                              procurer._cookiePath,
                              secureFlag(cr.sentSecurely), TRUE)
               ELSE rq1
        cr2 == IF due
               THEN Logged(cr1, [ op |-> "addCookie",
                                  cookie |-> rq2.cookies[Len(rq2.cookies)] ])
               ELSE cr1
    IN  IF due /\ tooLateToRewrite(rq)
        THEN Leaves(Raise(cr1, TooLateForCookies), rq1)
        ELSE Leaves(Return(cr2, Some(session)), rq2)

\* from the cookie test to returnValue(session)
issue(cr, rq) ==
    LET session == Get(cr.session)
        due == cookieDue(cr.sessionID, session, rq)
        rq1 == IF due
               THEN addCookie(rq, cr.cookieName, session.identifier,
                              procurer._maxAge, procurer._cookieDomain,
                              procurer._cookiePath,
                              secureFlag(cr.sentSecurely), TRUE)
               ELSE rq
        cr1 == IF due
               THEN Logged(cr, [ op |-> "addCookie",
                                 cookie |-> rq1.cookies[Len(rq1.cookies)] ])
               ELSE cr
        caches == mayCache(cr.sentSecurely, rq)
        rq2 == IF caches THEN setComponent(rq1, session) ELSE rq1
        cr2 == IF caches
               THEN Logged(cr1, [ op |-> "setComponent", session |-> session ])
               ELSE cr1
    IN  IF due /\ tooLateToRewrite(rq)
        THEN Leaves(Raise(cr, TooLateForCookies), rq)
        ELSE Leaves(Return(cr2, Some(session)), rq2)

\* the cookie looked up first, the header only when there is no cookie
extract_cookieFirst(cr, rq) ==
    LET fromCookie == getCookie(rq, cr.cookieName)
        mechanism == IF ~IsNone(fromCookie) THEN Cookie ELSE Header
        raw == IF ~IsNone(fromCookie) THEN fromCookie
               ELSE getHeader(rq, cr.tokenHeader)
        cr1 == [cr EXCEPT !.mechanism =
                   IF IsNone(raw) THEN Cookie ELSE mechanism]
    IN  IF IsNone(raw) THEN creation(cr1, rq)
        ELSE IF IsNone(decode(Get(raw)))
        THEN Leaves(Raise(cr1, UnicodeDecodeError), rq)
        ELSE Leaves(
            Logged([cr1 EXCEPT !.pc = "loadSession",
                               !.sessionID = decode(Get(raw))],
                   [ op |-> "loadSession", identifier |-> Get(decode(Get(raw))),
                     sentSecurely |-> cr.sentSecurely,
                     mechanism |-> mechanism ]),
            rq)

\* from request.getHeader(tokenHeader) up to the yield of loadSession
extract(cr, rq) ==
    LET fromHeader == getHeader(rq, cr.tokenHeader)
        mechanism == IF ~IsNone(fromHeader) THEN Header ELSE Cookie
        raw == IF ~IsNone(fromHeader) THEN fromHeader
               ELSE getCookie(rq, cr.cookieName)
        cr1 == [cr EXCEPT !.mechanism = mechanism]
    IN  IF IsNone(raw) THEN creation(cr1, rq)
        ELSE IF IsNone(decode(Get(raw)))
        THEN Leaves(Raise(cr1, UnicodeDecodeError), rq)
        ELSE Leaves(
            Logged([cr1 EXCEPT !.pc = "loadSession",
                               !.sessionID = decode(Get(raw))],
                   [ op |-> "loadSession", identifier |-> Get(decode(Get(raw))),
                     sentSecurely |-> cr.sentSecurely,
                     mechanism |-> mechanism ]),
            rq)

\* the call up to its first yield, return or raise
begin(cr, rq) ==
    IF alreadyProcured(rq)
    THEN Leaves(Return(cr, getComponent(rq)), rq)
    ELSE IF rq.secure THEN extract(classify(cr, rq), rq)
    ELSE Leaves(
        Logged([cr EXCEPT !.pc = "sentInsecurely"],
               [ op |-> "sentInsecurely",
                 tokens |-> allPossibleSentTokens(rq) ]),
        rq)

----------------------------------------------------------------------------
(* Initial states: a constructed procurer and a request as it arrives *)

\* What a client sends under the header and the cookie of one grade (grade
\* is "S" for the secure names, "I" for the insecure ones, and starts the
\* tokens sent under them).  A header may be absent, repeated (getRawHeaders
\* returns every value) or not ASCII; a cookie may be absent, a token, empty
\* or not ASCII.
HeaderValues(grade) == {<<>>, <<grade \o TokB, grade \o TokA>>, <<NonAscii>>}
CookieValues(grade) ==
    {None, Some(grade \o TokC), Some(Empty), Some(NonAscii)}
Sent(grade) ==
    ({<<>>} \X CookieValues(grade))
    \cup (HeaderValues(grade) \X {None, Some(grade \o TokC)})

\* nothing sent under the names of a grade; tokens under both of them
Nothing == <<(<<>>), None>>
Full(grade) == <<(<<grade \o TokB, grade \o TokA>>), Some(grade \o TokC)>>

S == <<83>>
I == <<73>>

\* A request carries nothing at all, or tokens under the names of one grade
\* and anything a client may send under the names of the other.  Over an
\* insecure transport the insecure names are the ones selected, over a
\* secure one either grade is (by forceInsecure).
SentUnderNames ==
    (Sent(S) \X {Full(I)}) \cup ({Full(S)} \X Sent(I))
    \cup {<<Nothing, Nothing>>}

ArrivingRequest(secure, method, sent) ==
    [ secure |-> secure,
      method |-> method,
      requestHeaders |->
          [h \in HeaderNames |->
              IF h = secureTokenHeader THEN sent[1][1] ELSE sent[2][1]],
      received_cookies |->
          [k \in CookieNames |->
              IF k = secureCookie THEN sent[1][2] ELSE sent[2][2]],
      startedWriting |-> FALSE,
      component |-> None,
      cookies |-> <<>>,
      code |-> 200 ]

ArrivingRequests ==
    UNION {{ArrivingRequest(secure, method, sent) :
               method \in Methods,
               sent \in {x \in SentUnderNames :
                            secure \/ x[1] \in {Full(S), Nothing}}} :
           secure \in BOOLEAN}

\* one injectValue call: its Authorization (interface, required), what
\* authorize answered, what it returned or raised, and the body rendered
IdleInjection ==
    [ pc |-> "idle", interface |-> None, required |-> TRUE,
      answer |-> None, provider |-> None, raised |-> NoError,
      resource |-> None, body |-> "" ]

Init ==
    /\ procurer \in {SessionProcurer(b) : b \in BOOLEAN}
    /\ request \in ArrivingRequests
    /\ store = [created |-> 0]
    /\ calls = [c \in CallIds |-> IdleCall]
    /\ injection = IdleInjection

\* A procurer constructed with names of the caller's choice, and a request
\* carrying under the names of each grade either both tokens or nothing
ConfiguredRequests ==
    {rq \in ArrivingRequests :
        \A h \in HeaderNames : \A k \in CookieNames :
            (rq.requestHeaders[h] = <<>>) = IsNone(rq.received_cookies[k])}

InitConfigured ==
    /\ procurer \in {SessionProcurerWith(cookies, headers, b) :
                        cookies \in CookieNames \X CookieNames,
                        headers \in HeaderNames \X HeaderNames,
                        b \in BOOLEAN}
    /\ request \in ConfiguredRequests
    /\ store = [created |-> 0]
    /\ calls = [c \in CallIds |-> IdleCall]
    /\ injection = IdleInjection

----------------------------------------------------------------------------
(* Actions of procureSession *)

Becomes(c, out) ==
    /\ calls' = [calls EXCEPT ![c] = out.c]
    /\ request' = out.r

\* procureSession(request, forceInsecure) is called and runs to its first
\* yield, return or raise
procureSession(c, forceInsecure) ==
    /\ calls[c].pc = "idle"
    /\ \A d \in CallIds : d < c => calls[d].pc # "idle"
    /\ Becomes(c, begin([calls[c] EXCEPT
                            !.forceInsecure = forceInsecure,
                            !.entry = request.component,
                            !.sequential =
                                \A d \in CallIds \ {c} :
                                    calls[d].pc \in {"idle", "done"}],
                        request))
    /\ UNCHANGED <<procurer, store, injection>>

\* the Deferred of store.sentInsecurely fires
sentInsecurely(c, outcome) ==
    /\ calls[c].pc = "sentInsecurely"
    /\ LET cr == Answered(calls[c], outcome, None)
       IN  IF outcome = "ok"
           THEN Becomes(c, extract(classify(cr, request), request))
           ELSE Becomes(c, Leaves(Raise(cr, StoreError), request))
    /\ UNCHANGED <<procurer, store, injection>>

\* the Deferred of store.loadSession fires
loadSession(c, outcome) ==
    /\ calls[c].pc = "loadSession"
    /\ LET identifier == IF outcome = "same" THEN Get(calls[c].sessionID)
                         ELSE Rotated
           session == Session(identifier, calls[c].sentSecurely,
                              calls[c].mechanism)
           cr == Answered(calls[c], outcome,
                          IF outcome \in {"same", "rotated"}
                          THEN Some(session) ELSE None)
       IN  CASE outcome \in {"same", "rotated"} ->
                  Becomes(c, issue([cr EXCEPT !.session = Some(session)],
                                   request))
             [] outcome = NoSuchSession ->
                  IF reraises(cr.mechanism)
                  THEN Becomes(c, Leaves(Raise(cr, NoSuchSession), request))
                  ELSE Becomes(c, creation([cr EXCEPT !.sessionID = None],
                                           request))
             [] OTHER ->
                  Becomes(c, Leaves(Raise(cr, StoreError), request))
    /\ UNCHANGED <<procurer, store, injection>>

\* the Deferred of store.newSession fires
newSession(c, outcome) ==
    /\ calls[c].pc = "newSession"
    /\ LET session == Session(NewIdentifier(store.created + 1),
                              calls[c].sentSecurely, calls[c].mechanism)
           cr == Answered(calls[c], outcome,
                          IF outcome = "ok" THEN Some(session) ELSE None)
       IN  IF outcome = "ok"
           THEN /\ Becomes(c, issue([cr EXCEPT !.session = Some(session)],
                                    request))
                /\ store' = [store EXCEPT !.created = @ + 1]
           ELSE /\ Becomes(c, Leaves(Raise(cr, StoreError), request))
                /\ UNCHANGED store
    /\ UNCHANGED <<procurer, injection>>

\* the application starts writing the response: request.startedWriting
startWriting ==
    /\ ~request.startedWriting
    /\ request' = [request EXCEPT !.startedWriting = TRUE]
    /\ UNCHANGED <<procurer, store, calls, injection>>

Next ==
    \/ \E c \in CallIds, forceInsecure \in BOOLEAN :
          procureSession(c, forceInsecure)
    \/ \E c \in CallIds, outcome \in CallOutcomes : sentInsecurely(c, outcome)
    \/ \E c \in CallIds, outcome \in LoadOutcomes : loadSession(c, outcome)
    \/ \E c \in CallIds, outcome \in CallOutcomes : newSession(c, outcome)
    \/ startWriting

Spec == Init /\ [][Next]_vars

\* the same calls on a procurer constructed with any names
SpecConfigured == InitConfigured /\ [][Next]_vars

----------------------------------------------------------------------------
(* Authorization.injectValue and AuthorizationDenied.render *)

UNAUTHORIZED == 401

EarlyExit == "EarlyExit"
TypeError == "TypeError"

\* the interfaces an Authorization may name
ISimpleAccount == [mod |-> "klein.storage", name |-> "ISimpleAccount"]
IAdmin == [mod |-> "app.interfaces", name |-> "IAdmin"]
Interfaces == {ISimpleAccount, IAdmin}

\* twisted.python.reflect.qual: module and name joined by a dot
qual(interface) == interface.mod \o "." \o interface.name

\* what session.authorize may fire with: a dict from some of the interfaces
\* to a provider or to None
Providers == {None, Some("provider")}
Authorizations ==
    UNION {[asked -> Providers] : asked \in SUBSET Interfaces}

\* dict.get(key)
get(mapping, key) == IF key \in DOMAIN mapping THEN mapping[key] ELSE None

AuthorizationDenied(interface) == [_interface |-> interface]

\* the denial lost: a required injection returns whatever was found
denied_never(required, provider) == FALSE

\* if self._required and provider is None
denied(required, provider) == required /\ IsNone(provider)

\* the sessions a request may have cached when injection runs
ProcuredSessions ==
    {None, Some(Session(S \o TokA, TRUE, Cookie)),
     Some(Session(I \o TokA, FALSE, Header))}

InitInjection ==
    /\ procurer \in {SessionProcurer(b) : b \in BOOLEAN}
    /\ request \in
          {[ArrivingRequest(secure, method, <<sent, sent>>)
               EXCEPT !.component = procured] :
              secure \in BOOLEAN, method \in Methods,
              sent \in {Nothing}, procured \in ProcuredSessions}
    /\ store = [created |-> 0]
    /\ calls = [c \in CallIds |-> IdleCall]
    /\ injection = IdleInjection

\* injectValue(request) is called on an Authorization(interface, required)
\* and runs to the yield of authorize; ISession(request) raises TypeError
\* when the request has no session
injectValue(interface, required) ==
    /\ injection.pc = "idle"
    /\ injection' =
          IF IsNone(getComponent(request))
          THEN [injection EXCEPT !.pc = "done", !.raised = TypeError,
                                 !.interface = Some(interface),
                                 !.required = required]
          ELSE [injection EXCEPT !.pc = "authorize",
                                 !.interface = Some(interface),
                                 !.required = required]
    /\ UNCHANGED <<procurer, request, store, calls>>

\* the Deferred of session.authorize([interface]) fires
authorize(answer) ==
    /\ injection.pc = "authorize"
    /\ LET interface == Get(injection.interface)
           provider == get(answer, interface)
       IN  injection' =
             IF denied(injection.required, provider)
             THEN [injection EXCEPT !.pc = "done", !.answer = Some(answer),
                                    !.raised = EarlyExit,
                                    !.resource =
                                        Some(AuthorizationDenied(interface))]
             ELSE [injection EXCEPT !.pc = "done", !.answer = Some(answer),
                                    !.provider = provider]
    /\ UNCHANGED <<procurer, request, store, calls>>

\* AuthorizationDenied.render(request), on the resource of an EarlyExit
render ==
    /\ injection.pc = "done"
    /\ ~IsNone(injection.resource)
    /\ request' = [request EXCEPT !.code = UNAUTHORIZED]
    /\ injection' =
          [injection EXCEPT
              !.pc = "rendered",
              !.body = qual(Get(injection.resource)._interface)
                       \o " DENIED"]
    /\ UNCHANGED <<procurer, store, calls>>

NextInjection ==
    \/ \E interface \in Interfaces, required \in BOOLEAN :
          injectValue(interface, required)
    \/ \E answer \in Authorizations : authorize(answer)
    \/ render

SpecInjection == InitInjection /\ [][NextInjection]_vars

TypeOK == \A c \in CallIds : calls[c].pc \in
    {"idle", "sentInsecurely", "loadSession", "newSession", "done"}

----------------------------------------------------------------------------
(* Reading a call's record *)

Log(c) == calls[c].log
Ops(c, op) == {i \in DOMAIN Log(c) : Log(c)[i].op = op}
Did(c, op) == Ops(c, op) # {}
StoreOps == {"sentInsecurely", "loadSession", "newSession"}
StoreCalls(c) == {i \in DOMAIN Log(c) : Log(c)[i].op \in StoreOps}
Done(c) == calls[c].pc = "done"
Returned(c) == Done(c) /\ calls[c].raised = NoError

\* the loadSession call of c and the store's answer to it
LoadAt(c) == CHOOSE i \in Ops(c, "loadSession") : TRUE
Load(c) == Log(c)[LoadAt(c)]
LoadAnswered(c) == Did(c, "loadSession") /\ LoadAt(c) + 1 \in DOMAIN Log(c)
LoadAnswer(c) == Log(c)[LoadAt(c) + 1]
Rejected(c, mechanism) ==
    /\ LoadAnswered(c)
    /\ Load(c).mechanism = mechanism
    /\ LoadAnswer(c).outcome = NoSuchSession
Accepted(c, mechanism) ==
    /\ LoadAnswered(c)
    /\ Load(c).mechanism = mechanism
    /\ ~IsNone(LoadAnswer(c).session)

\* c was called when call b and every other call begun before it had
\* ended: the two calls are made in sequence (calls begin in the order of
\* their numbers)
InSequence(b, c) ==
    /\ b < c
    /\ calls[c].pc # "idle"
    /\ calls[c].sequential

----------------------------------------------------------------------------
(* Claims *)

\* C1 as stated: of two procureSession calls made in sequence on the same
\* request with the same forceInsecure, the first of which ended normally,
\* the second returns what the first returned and makes no store call.
C1_Idempotent ==
    \A b, c \in CallIds :
        ( /\ InSequence(b, c) /\ Done(c) /\ Returned(b)
          /\ calls[b].forceInsecure = calls[c].forceInsecure )
        => /\ Returned(c)
           /\ calls[c].result = calls[b].result
           /\ StoreCalls(c) = {}

\* C1, amended: a procureSession call made when a session is cached on the
\* request returns that session and calls nothing; so of two calls in
\* sequence, the first of which cached its session, the second returns the
\* identical session with no store call.
C1_IdempotentWhenCached ==
    /\ \A c \in CallIds :
          (Done(c) /\ ~IsNone(calls[c].entry))
          => /\ Returned(c)
             /\ calls[c].result = calls[c].entry
             /\ Log(c) = <<>>
    /\ \A b, c \in CallIds :
          ( /\ InSequence(b, c) /\ Done(c) /\ Returned(b)
            /\ Did(b, "setComponent")
            /\ \A d \in CallIds \ {b} : ~Did(d, "setComponent") )
          => /\ Returned(c)
             /\ calls[c].result = calls[b].result
             /\ Log(c) = <<>>

C1_Witness ==
    \E b, c \in CallIds :
        /\ InSequence(b, c) /\ Done(c) /\ Returned(b)
        /\ Did(b, "setComponent")
        /\ Did(b, "newSession")
        /\ calls[c].result = calls[b].result
        /\ ~IsNone(calls[c].result)

\* C2: a call whose header identifier the store rejects with NoSuchSession
\* ends by raising NoSuchSession, without newSession, without a cookie
\* write and without caching a session.
C2_HeaderRejected ==
    \A c \in CallIds :
        (Done(c) /\ Rejected(c, Header))
        => /\ calls[c].raised = NoSuchSession
           /\ IsNone(calls[c].result)
           /\ ~Did(c, "newSession")
           /\ ~Did(c, "addCookie")
           /\ ~Did(c, "setComponent")

C2_Witness ==
    \E c \in CallIds :
        /\ Done(c) /\ Rejected(c, Header)
        /\ request.method = "GET" /\ procurer._setCookieOnGET
        /\ getCookie(request, calls[c].cookieName) \in {Some(S \o TokC), Some(I \o TokC)}
        /\ calls[c].raised = NoSuchSession

\* the events a step appends to the log of c
NewEvents(c) ==
    SubSeq(calls'[c].log, Len(calls[c].log) + 1, Len(calls'[c].log))

\* the locals of a call, which with the request decide what it does next
Locals(cr) ==
    [ pc |-> cr.pc, tokenHeader |-> cr.tokenHeader,
      cookieName |-> cr.cookieName, sentSecurely |-> cr.sentSecurely,
      sessionID |-> cr.sessionID, mechanism |-> cr.mechanism,
      session |-> cr.session, result |-> cr.result, raised |-> cr.raised ]

\* the request with nothing under the names the call has selected
WithoutIdentifier(rq, cr) ==
    [rq EXCEPT !.requestHeaders[cr.tokenHeader] = <<>>,
               !.received_cookies[cr.cookieName] = None]

\* where a call with the forceInsecure of c stands, and what it has asked
\* of the store, once it has read no identifier from the request
NoIdentifierRun(c) ==
    extract(classify([IdleCall EXCEPT
                         !.forceInsecure = calls[c].forceInsecure],
                     request),
            WithoutIdentifier(request, calls[c]))

\* C3 as stated: a call whose cookie identifier the store rejects with
\* NoSuchSession goes on as with no identifier (none returned, or newSession
\* called) and no error escapes it (a failure of newSession itself aside).
C3_NoErrorEscapes ==
    \A c \in CallIds :
        (Done(c) /\ Rejected(c, Cookie))
        => /\ calls[c].raised \in {NoError, StoreError}
           /\ Did(c, "newSession")
                <=> (request.method = "GET" /\ procurer._setCookieOnGET)

\* C3, amended: when the store rejects a cookie identifier with
\* NoSuchSession, the call stands exactly where it stands on the same
\* request with no identifier presented (same locals, same newSession call,
\* same return of none, request untouched), NoSuchSession does not escape;
\* TooLateForCookies does escape, as it does with no identifier, when a
\* session is to be created and startedWriting is true.
C3_AsNoIdentifier ==
    [][ \A c \in CallIds :
          ( /\ calls[c].pc = "loadSession"
            /\ calls[c].mechanism = Cookie
            /\ calls'[c].pc # "loadSession"
            /\ NewEvents(c)[1].outcome = NoSuchSession )
          => /\ Locals(calls'[c]) = Locals(NoIdentifierRun(c).c)
             /\ Tail(NewEvents(c)) = NoIdentifierRun(c).c.log
             /\ request' = request
             /\ calls'[c].raised \in {NoError, TooLateForCookies}
             /\ calls'[c].raised = TooLateForCookies
                  <=> ( /\ request.method = "GET"
                        /\ procurer._setCookieOnGET
                        /\ request.startedWriting ) ]_vars

C3_Witness ==
    \E c \in CallIds :
        /\ Done(c) /\ Rejected(c, Cookie)
        /\ calls[c].raised = TooLateForCookies
        /\ ~Did(c, "newSession")

\* C4: addCookie is never called, and newSession never invoked, while
\* request.startedWriting is true; a call that ends while it is true on a
\* GET with setCookieOnGET, and is not served from the request's cache,
\* returns normally only a loaded session under the identifier presented:
\* where a session would be created or a cookie issued it raises
\* TooLateForCookies (or has failed before).  startedWriting may turn true
\* while the call is suspended in a store call.
C4_NoLateCookie ==
    [][ /\ request'.cookies # request.cookies
          => ~request.startedWriting /\ ~request'.startedWriting
        /\ \A c \in CallIds :
              request.startedWriting
              => \A i \in DOMAIN NewEvents(c) :
                    NewEvents(c)[i].op \notin {"newSession", "addCookie"}
        /\ \A c \in CallIds :
              ( /\ request.startedWriting
                /\ calls[c].pc # "done" /\ calls'[c].pc = "done"
                /\ IsNone(calls'[c].entry)
                /\ request.method = "GET" /\ procurer._setCookieOnGET
                /\ calls'[c].raised \notin
                      {NoSuchSession, StoreError, UnicodeDecodeError} )
              => \/ calls'[c].raised = TooLateForCookies
                 \/ /\ calls'[c].raised = NoError
                    /\ ~IsNone(calls'[c].result)
                    /\ Did(c, "loadSession")
                    /\ Get(calls'[c].result).identifier = Load(c).identifier
        /\ \A c \in CallIds :
              ( /\ request.startedWriting
                /\ calls[c].pc = "newSession" /\ calls'[c].pc = "done"
                /\ store'.created > store.created )
              => /\ calls'[c].raised = TooLateForCookies
                 /\ request' = request ]_vars

C4_Witness ==
    \E c \in CallIds :
        /\ Done(c)
        /\ calls[c].raised = TooLateForCookies
        /\ Did(c, "newSession")
        /\ store.created > 0
        /\ request.startedWriting
        /\ request.cookies = <<>>

\* how often v occurs in a sequence, and under the cookie names
Occurs(seq, v) == Cardinality({i \in DOMAIN seq : seq[i] = v})
CookiesWith(v) == Cardinality({k \in CookieNames : getCookie(request, k) = Some(v)})
HeadersWith(v) ==
    Occurs(request.requestHeaders[secureTokenHeader], v)
    + Occurs(request.requestHeaders[insecureTokenHeader], v)

\* every value the request carries under the four names
ValuesFound ==
    UNION {{request.requestHeaders[h][i] :
               i \in DOMAIN request.requestHeaders[h]} : h \in HeaderNames}
    \cup UNION {{request.received_cookies[k][i] :
                    i \in DOMAIN request.received_cookies[k]} : k \in CookieNames}

\* the first thing call c did was to report to sentInsecurely, before any
\* loadSession or newSession, and it did so once; it reported every value of
\* the two headers and every cookie value under the two cookie names that
\* is not empty (an empty cookie carries no token)
ReportedFirst(c) ==
    /\ Ops(c, "sentInsecurely") = {1}
    /\ \A i \in Ops(c, "loadSession") \cup Ops(c, "newSession") : i > 1
    /\ \A v \in ValuesFound \cup
                {Log(c)[1].tokens[i] : i \in DOMAIN Log(c)[1].tokens} :
          Occurs(Log(c)[1].tokens, v)
          = HeadersWith(v) + IF v = Empty THEN 0 ELSE CookiesWith(v)

\* C5 as stated: every call begun on an insecure transport, served from the
\* request's cache or not, reports to sentInsecurely once and first, and
\* reports every value found under the four names.
C5_AlwaysReports ==
    \A c \in CallIds :
        (calls[c].pc # "idle" /\ ~request.secure) => ReportedFirst(c)

\* C5, amended: every call begun on an insecure transport with no session
\* cached on the request reports to sentInsecurely once, before any
\* loadSession or newSession, every value of the two headers and every
\* cookie value under the two cookie names that is not empty, also when
\* there is none, whatever forceInsecure and the method; a call served from
\* the cache reports nothing.
C5_ReportsUnlessCached ==
    \A c \in CallIds :
        (calls[c].pc # "idle" /\ ~request.secure)
        => IF IsNone(calls[c].entry)
           THEN ReportedFirst(c)
           ELSE ~Did(c, "sentInsecurely")

C5_Witness ==
    \E c \in CallIds :
        /\ ~request.secure
        /\ calls[c].forceInsecure
        /\ request.method = "POST"
        /\ ReportedFirst(c)
        /\ Len(Log(c)[1].tokens) = 5
        /\ Occurs(Log(c)[1].tokens, S \o TokC) = 1
        /\ Did(c, "loadSession")

\* C6 as stated: a call whose header identifier the store accepts returns
\* a session whose identifier is the one presented and writes no cookie,
\* also when the store has changed the identifier.
C6_HeaderAccepted ==
    \A c \in CallIds :
        (Done(c) /\ Accepted(c, Header))
        => /\ Returned(c)
           /\ Get(calls[c].result).identifier = Load(c).identifier
           /\ ~Did(c, "addCookie")

\* C6, amended: a call whose header identifier the store accepts returns
\* the session the store loaded.  If its identifier is the one presented,
\* no cookie is written, whatever the method and setCookieOnGET.  If the
\* store has changed the identifier, the session returned carries the new
\* one, and on a GET with setCookieOnGET a cookie with the new identifier
\* is written, or TooLateForCookies raised when startedWriting is true.
C6_HeaderAcceptedUnchanged ==
    \A c \in CallIds :
        (Done(c) /\ Accepted(c, Header))
        => LET loaded == Get(LoadAnswer(c).session)
               rewrite == /\ loaded.identifier # Load(c).identifier
                          /\ request.method = "GET"
                          /\ procurer._setCookieOnGET
           IN  \/ /\ Returned(c)
                  /\ calls[c].result = Some(loaded)
                  /\ Did(c, "addCookie") <=> rewrite
                  /\ \A i \in Ops(c, "addCookie") :
                        Log(c)[i].cookie.v = loaded.identifier
               \/ /\ calls[c].raised = TooLateForCookies
                  /\ rewrite
                  /\ request.startedWriting
                  /\ ~Did(c, "addCookie")

C6_Witness ==
    \E c \in CallIds :
        /\ Returned(c) /\ Accepted(c, Header)
        /\ request.method = "GET" /\ procurer._setCookieOnGET
        /\ Get(calls[c].result).identifier = Load(c).identifier
        /\ Load(c).identifier = S \o TokA
        /\ ~Did(c, "addCookie")
        /\ request.cookies = <<>>

\* C7: a required injectValue whose authorize answer has no provider for
\* the interface never returns: it raises EarlyExit with an
\* AuthorizationDenied for that interface, whose rendering sets status 401
\* and returns "<qualified interface name> DENIED"; a required injectValue
\* that returns, returns a provider.
C7_FailClosed ==
    /\ ( /\ injection.pc \in {"done", "rendered"}
         /\ injection.required
         /\ ~IsNone(injection.answer)
         /\ \/ Get(injection.interface) \notin DOMAIN Get(injection.answer)
            \/ IsNone(Get(injection.answer)[Get(injection.interface)]) )
       => /\ injection.raised = EarlyExit
          /\ IsNone(injection.provider)
          /\ Get(injection.resource)._interface = Get(injection.interface)
    /\ ( /\ injection.pc \in {"done", "rendered"}
         /\ injection.required
         /\ injection.raised = NoError )
       => ~IsNone(injection.provider)
    /\ injection.pc = "rendered"
       => /\ request.code = 401
          /\ Get(injection.interface) = ISimpleAccount
               => injection.body = "klein.storage.ISimpleAccount DENIED"
          /\ Get(injection.interface) = IAdmin
               => injection.body = "app.interfaces.IAdmin DENIED"

C7_Witness ==
    /\ injection.pc = "rendered"
    /\ injection.required
    /\ Get(injection.interface) = IAdmin
    /\ DOMAIN Get(injection.answer) = {ISimpleAccount}
    /\ injection.raised = EarlyExit
    /\ request.code = 401

\* the names the transport and forceInsecure of call c select
SelectedHeader(c) ==
    IF request.secure /\ ~calls[c].forceInsecure
    THEN "X-Auth-Token" ELSE "X-INSECURE-Auth-Token"
SelectedCookie(c) ==
    IF request.secure /\ ~calls[c].forceInsecure
    THEN "Klein-Secure-Session" ELSE "Klein-INSECURE-Session"

\* call c was not served from the cache and has got past sentInsecurely: it
\* has read the request for an identifier
ReadIdentifier(c) ==
    /\ calls[c].pc \notin {"idle", "sentInsecurely"}
    /\ IsNone(calls[c].entry)
    /\ request.secure \/ (Len(Log(c)) >= 2 /\ Log(c)[2].outcome = "ok")

\* the raw identifier the request presents to call c: the last value of the
\* selected header, else the selected cookie
Presented(c) ==
    IF request.requestHeaders[SelectedHeader(c)] # <<>>
    THEN Some(request.requestHeaders[SelectedHeader(c)]
                 [Len(request.requestHeaders[SelectedHeader(c)])])
    ELSE request.received_cookies[SelectedCookie(c)]

\* call c has no usable identifier: none presented, or a cookie identifier
\* the store rejected
NoUsableIdentifier(c) ==
    \/ ReadIdentifier(c) /\ IsNone(Presented(c))
    \/ Rejected(c, Cookie)

\* C8: a call without usable identifier on a request that is not a GET, or
\* with setCookieOnGET false, returns none, invokes no newSession, writes no
\* cookie and caches nothing; with setCookieOnGET false no call invokes
\* newSession.
C8_NoCreation ==
    /\ \A c \in CallIds :
          ( /\ Done(c) /\ NoUsableIdentifier(c)
            /\ request.method # "GET" \/ ~procurer._setCookieOnGET )
          => /\ Returned(c)
             /\ IsNone(calls[c].result)
             /\ ~Did(c, "newSession")
             /\ ~Did(c, "addCookie")
             /\ ~Did(c, "setComponent")
    /\ ~procurer._setCookieOnGET
          => /\ \A c \in CallIds : ~Did(c, "newSession")
             /\ store.created = 0

C8_Witness ==
    \E c \in CallIds :
        /\ Done(c) /\ Rejected(c, Cookie)
        /\ request.method = "POST" /\ procurer._setCookieOnGET
        /\ Returned(c) /\ IsNone(calls[c].result)
        /\ IsNone(request.component)

\* C9: a call on a GET with no identifier presented, setCookieOnGET true
\* and startedWriting false throughout invokes newSession once and (unless
\* newSession itself fails) returns the new session and writes one cookie:
\* the new identifier under the selected cookie name, with the configured
\* max-age, domain and path, httpOnly true and secure = sentSecurely; so
\* secure is true under the secure cookie name, false under the insecure
\* one, and false on an insecure transport.
C9_NewSessionCookie ==
    \A c \in CallIds :
        ( /\ Done(c) /\ ReadIdentifier(c) /\ IsNone(Presented(c))
          /\ request.method = "GET" /\ procurer._setCookieOnGET
          /\ ~request.startedWriting )
        => /\ Cardinality(Ops(c, "newSession")) = 1
           /\ \A n \in Ops(c, "newSession") :
                 /\ Log(c)[n].mechanism = Cookie
                 /\ Log(c)[n].sentSecurely
                      = (request.secure /\ ~calls[c].forceInsecure)
                 /\ IF Log(c)[n + 1].outcome = "ok"
                    THEN /\ Returned(c)
                         /\ calls[c].result = Log(c)[n + 1].session
                         /\ Cardinality(Ops(c, "addCookie")) = 1
                         /\ \A i \in Ops(c, "addCookie") :
                               LET cookie == Log(c)[i].cookie
                               IN  /\ \E j \in DOMAIN request.cookies :
                                         request.cookies[j] = cookie
                                   /\ cookie.v
                                        = Get(calls[c].result).identifier
                                   /\ cookie.k = SelectedCookie(c)
                                   /\ cookie.httpOnly
                                   /\ cookie.secure = Log(c)[n].sentSecurely
                                   /\ cookie.max_age = 3600
                                   /\ cookie.domain = None
                                   /\ cookie.path = "/"
                                   /\ cookie.k = "Klein-Secure-Session"
                                        => cookie.secure
                                   /\ cookie.k = "Klein-INSECURE-Session"
                                        => ~cookie.secure
                                   /\ ~request.secure => ~cookie.secure
                    ELSE /\ calls[c].raised = StoreError
                         /\ ~Did(c, "addCookie")

C9_Witness ==
    \E c \in CallIds :
        /\ Returned(c) /\ ReadIdentifier(c) /\ IsNone(Presented(c))
        /\ ~request.secure
        /\ request.method = "GET" /\ procurer._setCookieOnGET
        /\ ~request.startedWriting
        /\ Did(c, "newSession")
        /\ Len(request.cookies) = 1
        /\ ~request.cookies[1].secure
        /\ request.cookies[1].httpOnly
        /\ request.cookies[1].k = "Klein-INSECURE-Session"

\* C10: an identifier presented by header or cookie that is not ASCII is
\* treated as absent: the call raises no error because of it, makes no
\* loadSession call, and goes on to the creation decision as with no
\* identifier (newSession exactly on a GET with setCookieOnGET).
C10_NonAsciiAbsent ==
    \A c \in CallIds :
        ( /\ Done(c) /\ ReadIdentifier(c)
          /\ ~IsNone(Presented(c))
          /\ \E i \in DOMAIN Get(Presented(c)) : Get(Presented(c))[i] >= 128 )
        => /\ calls[c].raised # UnicodeDecodeError
           /\ ~Did(c, "loadSession")
           /\ request.startedWriting
              \/ ( Did(c, "newSession")
                     <=> (request.method = "GET" /\ procurer._setCookieOnGET) )

\* the session the store handed to call c, if it handed one, and the
\* sentSecurely of the call that asked for it
Obtained(c) ==
    {i \in DOMAIN Log(c) :
        Log(c)[i].op \in {"loadSession", "newSession"}
        /\ i + 1 \in DOMAIN Log(c)
        /\ ~IsNone(Log(c)[i + 1].session)}

\* C11: a session cached on a request whose transport is secure was handed
\* out by the store on a loadSession or newSession call made with
\* sentSecurely true; a session procured with forceInsecure on a secure
\* transport is not cached, and no call made with forceInsecure false
\* returns a session of the insecure grade.
C11_CacheIsSecureGrade ==
    request.secure
    => /\ ~IsNone(request.component)
          => \E c \in CallIds : \E i \in Obtained(c) :
                /\ Log(c)[i].sentSecurely
                /\ Log(c)[i + 1].session = request.component
       /\ \A c \in CallIds :
             (calls[c].pc # "idle" /\ calls[c].forceInsecure)
             => /\ ~Did(c, "setComponent")
                /\ \A i \in Obtained(c) :
                      Log(c)[i + 1].session # request.component
       /\ \A c \in CallIds :
             (Returned(c) /\ ~calls[c].forceInsecure
                /\ ~IsNone(calls[c].result))
             => Get(calls[c].result).isConfidential

C11_Witness ==
    \E b, c \in CallIds :
        /\ request.secure
        /\ InSequence(b, c)
        /\ calls[b].forceInsecure /\ Returned(b)
        /\ ~IsNone(calls[b].result)
        /\ ~Get(calls[b].result).isConfidential
        /\ ~calls[c].forceInsecure /\ Returned(c)
        /\ IsNone(calls[c].entry)
        /\ request.component = calls[c].result
        /\ ~IsNone(calls[c].result)

\* C12: every loadSession and newSession call carries sentSecurely true
\* exactly when the transport is secure and forceInsecure is false; the
\* identifier looked up is then read under the secure header and cookie
\* names, and in every other case under the insecure ones.
C12_TransportClassification ==
    \A c \in CallIds :
        /\ \A i \in Ops(c, "loadSession") \cup Ops(c, "newSession") :
              Log(c)[i].sentSecurely
              = (request.secure /\ ~calls[c].forceInsecure)
        /\ \A i \in Ops(c, "loadSession") :
              /\ Some(Log(c)[i].identifier) = Presented(c)
              /\ calls[c].tokenHeader = SelectedHeader(c)
              /\ calls[c].cookieName = SelectedCookie(c)
        /\ \A i \in Ops(c, "addCookie") :
              Log(c)[i].cookie.k = SelectedCookie(c)

C12_Witness ==
    \E c \in CallIds :
        /\ request.secure /\ calls[c].forceInsecure
        /\ request.requestHeaders["X-Auth-Token"] # <<>>
        /\ Did(c, "loadSession")
        /\ ~Load(c).sentSecurely
        /\ Load(c).identifier = I \o TokC
        /\ Load(c).mechanism = Cookie

\* what a call does to its collaborators: the store calls and the writes
\* to the request
Effects ==
    {"sentInsecurely", "loadSession", "newSession", "addCookie",
     "setComponent"}

\* C13: within one procureSession call there is at most one cookie write,
\* one sentInsecurely call, one loadSession call and one newSession call (and
\* one write of the cache); the cookies and the sessions that exist are the
\* ones those single calls account for, and a store call that failed is the
\* last thing its procureSession call did.
C13_AtMostOnce ==
    /\ \A c \in CallIds : \A op \in Effects : Cardinality(Ops(c, op)) <= 1
    /\ Len(request.cookies)
       = Cardinality({c \in CallIds : Did(c, "addCookie")})
    /\ store.created
       = Cardinality({c \in CallIds :
            \E i \in Ops(c, "newSession") :
                /\ i + 1 \in DOMAIN Log(c)
                /\ Log(c)[i + 1].outcome = "ok"})
    /\ \A c \in CallIds : \A i \in DOMAIN Log(c) :
          (Log(c)[i].op = "answer" /\ Log(c)[i].outcome = StoreError)
          => /\ i = Len(Log(c))
             /\ Done(c)
             /\ calls[c].raised = StoreError

C13_Witness ==
    \E c \in CallIds :
        /\ Returned(c)
        /\ \A op \in Effects : Cardinality(Ops(c, op)) = 1
        /\ Len(request.cookies) = 1
        /\ \E b \in CallIds :
              /\ LoadAnswered(b)
              /\ LoadAnswer(b).outcome = StoreError

\* the place of an effect in the order of the code
Rank(op) ==
    CASE op = "sentInsecurely" -> 1
      [] op = "loadSession" -> 2
      [] op = "newSession" -> 3
      [] op = "addCookie" -> 4
      [] op = "setComponent" -> 5
      [] OTHER -> 0

\* C14: the effects of one procureSession call come in the order
\* sentInsecurely, loadSession, newSession, cookie write, caching; each
\* store call is answered before the call does anything else, so newSession
\* is invoked only after the loadSession for the presented identifier has
\* completed, and the cache is set only after the cookie was written.
C14_EffectsInOrder ==
    \A c \in CallIds :
        /\ \A i, j \in DOMAIN Log(c) :
              (i < j /\ Log(c)[i].op \in Effects /\ Log(c)[j].op \in Effects)
              => Rank(Log(c)[i].op) < Rank(Log(c)[j].op)
        /\ \A i \in DOMAIN Log(c) :
              (Log(c)[i].op \in StoreOps /\ i < Len(Log(c)))
              => Log(c)[i + 1].op = "answer"
        /\ \A i \in DOMAIN Log(c) :
              Log(c)[i].op = "answer"
              => (i > 1 /\ Log(c)[i - 1].op \in StoreOps)
        /\ Did(c, "newSession")
              => (NoUsableIdentifier(c)
                  \/ (LoadAnswered(c)
                      /\ LoadAnswer(c).outcome = NoSuchSession))
        /\ request.cookies # <<>> \/ ~Did(c, "addCookie")

C14_Witness ==
    \E c \in CallIds :
        /\ Returned(c)
        /\ Len(Log(c)) = 8
        /\ Log(c)[1].op = "sentInsecurely"
        /\ Log(c)[3].op = "loadSession"
        /\ Log(c)[5].op = "newSession"
        /\ Log(c)[7].op = "addCookie"
        /\ Log(c)[8].op = "setComponent"
        /\ request.component = calls[c].result

\* C15: a step of a procureSession call that does not return a session
\* leaves the request as it was, so a call that ends with an error
\* (NoSuchSession, TooLateForCookies, a failure of a store call or of the
\* awaited Deferred, or a value that does not decode) has written no cookie
\* and cached no session.
C15_ErrorLeavesRequest ==
    [][\A c \in CallIds :
          /\ (calls'[c] # calls[c]
              /\ (calls'[c].pc # "done" \/ calls'[c].raised # NoError))
             => request' = request
          /\ (calls'[c].pc = "done" /\ calls'[c].raised # NoError)
             => \A i \in DOMAIN calls'[c].log :
                   calls'[c].log[i].op \notin {"addCookie", "setComponent"}
      ]_vars

C15_Witness ==
    \E a, b \in CallIds :
        /\ Done(a) /\ calls[a].raised = TooLateForCookies
        /\ Did(a, "newSession")
        /\ Done(b) /\ calls[b].raised = StoreError
        /\ request.cookies = <<>>
        /\ IsNone(request.component)

\* the values the request carries under the header selected for call c
SentInHeader(c) == request.requestHeaders[SelectedHeader(c)]

\* C16: when the selected token header is present, the identifier passed to
\* loadSession is the (last) value of that header and the mechanism is
\* Header, whatever the selected cookie holds; the cookie value is passed,
\* with mechanism Cookie, only when the header is absent.  A decodable
\* header is always looked up.
C16_HeaderPrecedence ==
    \A c \in CallIds :
        /\ Did(c, "loadSession")
           => IF SentInHeader(c) # <<>>
              THEN /\ Load(c).mechanism = Header
                   /\ Load(c).identifier
                      = SentInHeader(c)[Len(SentInHeader(c))]
              ELSE /\ Load(c).mechanism = Cookie
                   /\ Some(Load(c).identifier)
                      = request.received_cookies[SelectedCookie(c)]
        /\ ( /\ ReadIdentifier(c)
             /\ SentInHeader(c) # <<>>
             /\ IsAscii(SentInHeader(c)[Len(SentInHeader(c))]) )
           => Did(c, "loadSession")

C16_Witness ==
    \E b, c \in CallIds :
        /\ Did(b, "loadSession")
        /\ Load(b).mechanism = Header
        /\ ~IsNone(request.received_cookies[SelectedCookie(b)])
        /\ Some(Load(b).identifier)
           # request.received_cookies[SelectedCookie(b)]
        /\ Did(c, "loadSession")
        /\ Load(c).mechanism = Cookie

\* call c procured a session, not taking it from the cache, and returned it
Procured(c) ==
    /\ Returned(c)
    /\ IsNone(calls[c].entry)
    /\ ~IsNone(calls[c].result)

C17_WitnessOffGet ==
    \E c \in CallIds :
        /\ request.method # "GET"
        /\ Procured(c) /\ LoadAnswered(c)
        /\ LoadAnswer(c).outcome = "rotated"
        /\ Get(calls[c].result).identifier = Rotated

\* C19: every newSession call carries mechanism Cookie, and so every session
\* the store creates is authenticated by cookie.
C19_NewSessionByCookie ==
    \A c \in CallIds : \A i \in Ops(c, "newSession") :
        /\ Log(c)[i].mechanism = Cookie
        /\ calls[c].mechanism = Cookie
        /\ (i + 1 \in DOMAIN Log(c) /\ ~IsNone(Log(c)[i + 1].session))
           => Get(Log(c)[i + 1].session).authenticatedBy = Cookie

C19_Witness ==
    \E b \in CallIds :
        /\ Rejected(b, Cookie) /\ Did(b, "newSession")
        /\ Procured(b)
        /\ Get(calls[b].result).authenticatedBy = Cookie
        /\ request.component = calls[b].result

\* C18: every SessionProcurer that can be constructed has a secure cookie
\* name different from the insecure one and a secure token header name
\* different from the insecure one, so procureSession never runs with
\* secure and insecure names that coincide.
C18_DistinctNames ==
    /\ procurer._secureCookie # procurer._insecureCookie
    /\ procurer._secureTokenHeader # procurer._insecureTokenHeader
    /\ \A c \in CallIds :
          calls[c].pc # "idle"
          => /\ procurer._secureCookie # procurer._insecureCookie
             /\ procurer._secureTokenHeader # procurer._insecureTokenHeader

\* C20 as stated: for any interleaving of procureSession calls on the same
\* request, a session once cached is never replaced by a different one, and
\* newSession creates at most one session for the request.
C20_CacheStable ==
    [][ /\ ~IsNone(request.component)
           => request'.component = request.component
        /\ store'.created <= 1 ]_vars

\* calls b and c overlapped: neither began after the other had ended
Overlapped(b, c) == b # c /\ ~InSequence(b, c) /\ ~InSequence(c, b)

\* C20: a call that finds a session cached when it begins changes neither
\* the request nor the store; a cached session is replaced only by a call
\* that found none cached when it began and overlapped the call that cached
\* it; and no more sessions are created than calls have begun without a
\* cached session.
C20_ReplacedOnlyByOverlapping ==
    [][\A c \in CallIds :
          calls'[c] # calls[c]
          => /\ ~IsNone(calls'[c].entry)
                => (request' = request /\ store' = store)
             /\ ( /\ ~IsNone(request.component)
                  /\ request'.component # request.component )
                => /\ IsNone(calls[c].entry)
                   /\ calls[c].pc \in {"loadSession", "newSession"}
                   /\ \E b \in CallIds :
                         /\ Overlapped(b, c)
                         /\ \E i \in Ops(b, "setComponent") :
                               Some(Log(b)[i].session) = request.component
             /\ store'.created
                <= Cardinality({b \in CallIds :
                      calls'[b].pc # "idle" /\ IsNone(calls'[b].entry)})
      ]_vars

C20_Witness ==
    \E b, c \in CallIds :
        /\ Overlapped(b, c)
        /\ Procured(b) /\ Did(b, "setComponent")
        /\ Procured(c) /\ Did(c, "setComponent")
        /\ calls[b].result # calls[c].result
        /\ request.component = calls[c].result
        /\ store.created = 2

====
